---- MODULE Spec2Model ----
(***************************************************************************)
(* Model of the `Finite` combinator algebra of src/src/finite.rs: the      *)
(* primitives Empty, Singleton, Lazy and Natural, the combinators Union,   *)
(* Map and Product, and the sequential adaptor Iter.                       *)
(*                                                                         *)
(* A collection is a tuple <<tag, x, y>>.  `len` and `index` are the two   *)
(* trait methods.  usize arithmetic keeps its width: a sum or product that *)
(* does not fit panics in a build with overflow checks and wraps modulo    *)
(* 2^UsizeBits in a build without them; the build is chosen in Init.       *)
(***************************************************************************)
EXTENDS Integers, Sequences, FiniteSets

VARIABLES coll, checked, iters, invoked, counted, direct, last, panicked

vars == <<coll, checked, iters, invoked, counted, direct, last, panicked>>

-----------------------------------------------------------------------------
(* Bounds of the model. *)

\* Natural(n) is drawn for n in 0..MaxN (besides the word-sized values).
MaxN == 2
\* Direct index(i) calls draw i from 0..MaxIdx.
MaxIdx == 2
\* Direct index(i) calls made in one run.
MaxDirect == 1
\* Elements one iterator is made to yield (a longer collection is not exhausted).
MaxYield == 2
\* Iterators created over the collection in one run.
NumIters == 2

-----------------------------------------------------------------------------
(* usize *)

\* Width of usize: 16 bits, the narrowest pointer width Rust supports (on a
\* 32- or 64-bit target the same sums and products overflow at 2^32, 2^64).
UsizeBits == 16
Modulus == 2 ^ UsizeBits
UsizeMax == Modulus - 1
\* 2^(UsizeBits/2): the least n with n * n not representable.
HalfWord == 2 ^ (UsizeBits \div 2)

\* Outcome of a usize computation that panicked on overflow.
Overflow == -1

\* a + b on usize
AddUsize(a, b, chk) ==
    IF a = Overflow \/ b = Overflow THEN Overflow
    ELSE IF a + b < Modulus THEN a + b
    ELSE IF chk THEN Overflow
    ELSE (a + b) % Modulus

\* a * b on usize
MulUsize(a, b, chk) ==
    IF a = Overflow \/ b = Overflow THEN Overflow
    ELSE IF a * b < Modulus THEN a * b
    ELSE IF chk THEN Overflow
    ELSE (a * b) % Modulus

-----------------------------------------------------------------------------
(* Constructors *)

empty == <<"Empty", 0, 0>>
singleton(t) == <<"Singleton", t, 0>>
\* lazy(f) for the producer || v
lazy(v) == <<"Lazy", v, 0>>
Natural(n) == <<"Natural", n, 0>>
union(a, b) == <<"Union", a, b>>
map(a, f) == <<"Map", a, f>>
product(a, b) == <<"Product", a, b>>

Tag(t) == t[1]

-----------------------------------------------------------------------------
(* Closures handed to map: the example's |i| i.to_string(), and two more. *)

Digits == <<"0", "1", "2", "3", "4", "5", "6", "7", "8", "9">>

RECURSIVE to_string(_)
to_string(n) ==
    IF n < 10 THEN Digits[n + 1]
    ELSE to_string(n \div 10) \o Digits[(n % 10) + 1]

ApplyF(f, x) ==
    CASE f = "to_string" -> to_string(x)
      [] f = "succ"      -> x + 1
      [] f = "swap"      -> <<x[2], x[1]>>

-----------------------------------------------------------------------------
(* Finite::len *)

RECURSIVE len(_, _)
len(t, chk) ==
    CASE Tag(t) = "Empty"     -> 0
      [] Tag(t) = "Singleton" -> 1
      [] Tag(t) = "Lazy"      -> 1
      [] Tag(t) = "Natural"   -> t[2]
      [] Tag(t) = "Union"     -> AddUsize(len(t[2], chk), len(t[3], chk), chk)
      [] Tag(t) = "Map"       -> len(t[2], chk)
      [] Tag(t) = "Product"   -> MulUsize(len(t[2], chk), len(t[3], chk), chk)

-----------------------------------------------------------------------------
(* Finite::index.  The outcome is [k, v, ev]: k is "ok" with the item v, or *)
(* the panic ("oob": the out-of-range panics of Empty, Singleton and Lazy;  *)
(* "divzero": division by a zero length; "overflow"); ev is what happened   *)
(* on the way, in order: every index call with the node it was made on and  *)
(* every invocation of a closure.                                           *)

Ok(v, ev) == [k |-> "ok", v |-> v, ev |-> ev]
Panic(kind, ev) == [k |-> kind, v |-> <<>>, ev |-> ev]

\* index(i) is called on the node at path p, whose length is n
Called(p, i, n) == [e |-> "index", p |-> p, i |-> i, n |-> n]
\* the closure held by the node at path p is invoked
Invoked(p) == [e |-> "invoke", p |-> p, i |-> 0, n |-> 0]

RECURSIVE index(_, _, _, _)

\* the call this is, for the record
Self(t, i, chk, p) == Called(p, i, len(t, chk))

\* Empty::index
EmptyIndex(t, i, chk, p) == Panic("oob", <<Self(t, i, chk, p)>>)

\* Singleton::index
SingletonIndex(t, i, chk, p) ==
    IF i = 0 THEN Ok(t[2], <<Self(t, i, chk, p)>>)
    ELSE Panic("oob", <<Self(t, i, chk, p)>>)

\* Lazy::index
LazyIndex(t, i, chk, p) ==
    IF i = 0 THEN Ok(t[2], <<Self(t, i, chk, p), Invoked(p)>>)
    ELSE Panic("oob", <<Self(t, i, chk, p)>>)

\* Natural::index
NaturalIndex(t, i, chk, p) == Ok(i, <<Self(t, i, chk, p)>>)

\* Union::index
UnionIndex(t, i, chk, p) ==
    LET c == Self(t, i, chk, p)
        ll == len(t[2], chk)
    IN  IF ll = Overflow THEN Panic("overflow", <<c>>)
        ELSE LET r == IF i < ll THEN index(t[2], i, chk, Append(p, 1))
                      ELSE index(t[3], i - ll, chk, Append(p, 2))
             IN  [r EXCEPT !.ev = <<c>> \o r.ev]

\* Map::index always reading the child's first item
MapIndex_first(t, i, chk, p) ==
    LET c == Self(t, i, chk, p)
        r == index(t[2], 0, chk, Append(p, 1))
    IN  IF r.k = "ok" THEN Ok(ApplyF(t[3], r.v), <<c>> \o r.ev \o <<Invoked(p)>>)
        ELSE Panic(r.k, <<c>> \o r.ev)

\* Map::index
MapIndex(t, i, chk, p) ==
    LET c == Self(t, i, chk, p)
        r == index(t[2], i, chk, Append(p, 1))
    IN  IF r.k = "ok" THEN Ok(ApplyF(t[3], r.v), <<c>> \o r.ev \o <<Invoked(p)>>)
        ELSE Panic(r.k, <<c>> \o r.ev)

\* Product::index with quotient and remainder exchanged
ProductSplit_swapped(i, rl) == <<i % rl, i \div rl>>

\* the q and r of Product::index
ProductSplit(i, rl) == <<i \div rl, i % rl>>

\* Product::index
ProductIndex(t, i, chk, p) ==
    LET c == Self(t, i, chk, p)
        rl == len(t[3], chk)
    IN  IF rl = Overflow THEN Panic("overflow", <<c>>)
        ELSE IF rl = 0 THEN Panic("divzero", <<c>>)
        ELSE LET qr == ProductSplit(i, rl)
                 a == index(t[2], qr[1], chk, Append(p, 1))
             IN  IF a.k # "ok" THEN Panic(a.k, <<c>> \o a.ev)
                 ELSE LET b == index(t[3], qr[2], chk, Append(p, 2)) IN
                      IF b.k # "ok" THEN Panic(b.k, <<c>> \o a.ev \o b.ev)
                      ELSE Ok(<<a.v, b.v>>, <<c>> \o a.ev \o b.ev)

index(t, i, chk, p) ==
    CASE Tag(t) = "Empty"     -> EmptyIndex(t, i, chk, p)
      [] Tag(t) = "Singleton" -> SingletonIndex(t, i, chk, p)
      [] Tag(t) = "Lazy"      -> LazyIndex(t, i, chk, p)
      [] Tag(t) = "Natural"   -> NaturalIndex(t, i, chk, p)
      [] Tag(t) = "Union"     -> UnionIndex(t, i, chk, p)
      [] Tag(t) = "Map"       -> MapIndex(t, i, chk, p)
      [] Tag(t) = "Product"   -> ProductIndex(t, i, chk, p)

-----------------------------------------------------------------------------
(* The collections a run may be about. *)

Leaves == {empty, singleton(7), lazy(9)} \cup {Natural(n) : n \in 0..MaxN}
Wide == {Natural(UsizeMax), Natural(HalfWord)}
Core == {empty, lazy(9), Natural(MaxN)}
Two == {lazy(9), Natural(MaxN)}

\* the three collections of examples/finite.rs
Examples ==
    { product(Natural(3), Natural(5)),
      map(Natural(5), "to_string"),
      union(Natural(5), Natural(3)) }

Depth1 ==
    {union(a, b) : a \in Core, b \in Core}
    \cup {union(Natural(UsizeMax), b) : b \in Two \cup {Natural(UsizeMax)}}
    \cup {union(a, Natural(UsizeMax)) : a \in Two}
    \cup {map(a, "succ") : a \in Core \cup {singleton(7)}}
    \cup {map(a, "to_string") : a \in {singleton(7), Natural(MaxN)}}
    \cup {product(a, b) : a \in Core, b \in Core}
    \cup {product(a, Natural(HalfWord)) : a \in {Natural(MaxN), Natural(HalfWord)}}

Depth2 ==
    {product(union(a, lazy(9)), c) : a \in Two, c \in Two}
    \cup {product(c, union(lazy(9), b)) : b \in Two, c \in Two}
    \cup {product(lazy(9), union(empty, empty))}
    \cup {map(product(a, Natural(MaxN)), "swap") : a \in Two}
    \cup {product(map(a, "succ"), b) : a \in Two, b \in {empty, Natural(MaxN)}}
    \cup {union(map(a, "succ"), Natural(MaxN)) : a \in Two \cup {Natural(UsizeMax)}}
    \cup {product(union(Natural(UsizeMax), a), Natural(MaxN)) : a \in Two}
    \cup {map(union(Natural(UsizeMax), Natural(MaxN)), "succ")}

Trees == Leaves \cup Wide \cup Examples \cup Depth1 \cup Depth2

\* the paths of the nodes of t: <<>> is t, 1 the left (or only) child, 2 the right
RECURSIVE Paths(_)
Paths(t) ==
    CASE Tag(t) \in {"Union", "Product"} ->
            {<<>>} \cup {<<1>> \o q : q \in Paths(t[2])}
                   \cup {<<2>> \o q : q \in Paths(t[3])}
      [] Tag(t) = "Map" -> {<<>>} \cup {<<1>> \o q : q \in Paths(t[2])}
      [] OTHER -> {<<>>}

RECURSIVE At(_, _)
At(t, p) == IF p = <<>> THEN t ELSE At(t[Head(p) + 1], Tail(p))

-----------------------------------------------------------------------------
(* State.                                                                   *)
(*   coll      the collection                                               *)
(*   checked   whether the build panics on arithmetic overflow              *)
(*   iters     the iterators made by iter(): `index` is Iter's field;       *)
(*             `yielded` and `done` record what next() has returned         *)
(*   invoked   per node, how often its closure has run                      *)
(*   counted   per node, the index calls made on it that were in range      *)
(*   direct    the number of index calls the caller made himself            *)
(*   last      the last call and its outcome; `again` marks a next() on an  *)
(*             iterator that had already reported exhaustion                *)
(*   panicked  a panic has ended the run                                    *)

IterIds == 1..NumIters

NoIter == [live |-> FALSE, index |-> 0, yielded |-> <<>>, done |-> FALSE]

\* Finite::iter
iter == [live |-> TRUE, index |-> 0, yielded |-> <<>>, done |-> FALSE]

Tally(ev, kind, p) ==
    Cardinality({j \in 1..Len(ev) : ev[j].e = kind /\ ev[j].p = p})

InRange(ev, p) ==
    Cardinality({j \in 1..Len(ev) :
        ev[j].e = "index" /\ ev[j].p = p /\ ev[j].n # Overflow /\ ev[j].i < ev[j].n})

\* the bookkeeping of what an index call did
Observe(ev) ==
    /\ invoked' = [p \in DOMAIN invoked |-> invoked[p] + Tally(ev, "invoke", p)]
    /\ counted' = [p \in DOMAIN counted |-> counted[p] + InRange(ev, p)]

Init ==
    /\ coll \in Trees
    /\ checked \in BOOLEAN
    /\ iters = [k \in IterIds |-> NoIter]
    /\ invoked = [p \in Paths(coll) |-> 0]
    /\ counted = [p \in Paths(coll) |-> 0]
    /\ direct = 0
    /\ last = [op |-> "new", it |-> 0, arg |-> 0, again |-> FALSE, res |-> Ok(0, <<>>)]
    /\ panicked = FALSE

\* coll.len()
LenCall ==
    /\ ~panicked
    /\ LET n == len(coll, checked) IN
       /\ last' = [op |-> "len", it |-> 0, arg |-> 0, again |-> FALSE,
                   res |-> IF n = Overflow THEN Panic("overflow", <<>>)
                           ELSE Ok(n, <<>>)]
       /\ panicked' = (n = Overflow)
    /\ UNCHANGED <<coll, checked, iters, invoked, counted, direct>>

\* coll.index(i)
ElementAt(i) ==
    /\ ~panicked
    /\ direct < MaxDirect
    /\ LET r == index(coll, i, checked, <<>>) IN
       /\ last' = [op |-> "index", it |-> 0, arg |-> i, again |-> FALSE, res |-> r]
       /\ panicked' = (r.k # "ok")
       /\ Observe(r.ev)
    /\ direct' = direct + 1
    /\ UNCHANGED <<coll, checked, iters>>

\* let it = coll.iter()
Iterate(k) ==
    /\ ~panicked
    /\ ~iters[k].live
    /\ \A j \in 1..(k - 1) : iters[j].live
    /\ iters' = [iters EXCEPT ![k] = iter]
    /\ last' = [op |-> "iter", it |-> k, arg |-> 0, again |-> FALSE,
                res |-> Ok(0, <<>>)]
    /\ UNCHANGED <<coll, checked, invoked, counted, direct, panicked>>

\* Iter::next stopping one index late (i <= len)
next_inclusive(it, n) ==
    LET i == it.index IN
    IF n = Overflow THEN <<it, Panic("overflow", <<>>)>>
    ELSE IF i <= n
    THEN LET r == index(coll, i, checked, <<>>) IN
         <<[it EXCEPT !.index = i + 1,
                      !.yielded = IF r.k = "ok" THEN Append(@, r.v) ELSE @], r>>
    ELSE <<[it EXCEPT !.done = TRUE], [k |-> "none", v |-> <<>>, ev |-> <<>>]>>

\* Iter::next starting over once it has reached the end
next_restart(it, n) ==
    LET i == it.index IN
    IF n = Overflow THEN <<it, Panic("overflow", <<>>)>>
    ELSE IF i < n
    THEN LET r == index(coll, i, checked, <<>>) IN
         <<[it EXCEPT !.index = i + 1,
                      !.yielded = IF r.k = "ok" THEN Append(@, r.v) ELSE @], r>>
    ELSE <<[it EXCEPT !.done = TRUE, !.index = 0],
           [k |-> "none", v |-> <<>>, ev |-> <<>>]>>

\* Iter::next on an iterator it, the collection's length being n:
\* <<the iterator afterwards, the outcome>>
next(it, n) ==
    LET i == it.index IN
    IF n = Overflow THEN <<it, Panic("overflow", <<>>)>>
    ELSE IF i < n
    THEN LET r == index(coll, i, checked, <<>>) IN
         <<[it EXCEPT !.index = i + 1,
                      !.yielded = IF r.k = "ok" THEN Append(@, r.v) ELSE @], r>>
    ELSE <<[it EXCEPT !.done = TRUE], [k |-> "none", v |-> <<>>, ev |-> <<>>]>>

\* it.next()
Next_(k) ==
    /\ ~panicked
    /\ iters[k].live
    /\ Len(iters[k].yielded) < MaxYield \/ iters[k].index >= len(coll, checked)
    /\ LET o == next(iters[k], len(coll, checked)) IN
       /\ iters' = [iters EXCEPT ![k] = o[1]]
       /\ last' = [op |-> "next", it |-> k, arg |-> iters[k].index,
                   again |-> iters[k].done, res |-> o[2]]
       /\ panicked' = (o[2].k \notin {"ok", "none"})
       /\ Observe(o[2].ev)
    /\ UNCHANGED <<coll, checked, direct>>

\* Iter::size_hint reporting the whole length
size_hint_whole(it, n) == n

\* Iter::size_hint: the one number of the pair (size, Some(size))
size_hint(it, n) ==
    IF n = Overflow THEN Overflow
    ELSE IF n - it.index >= 0 THEN n - it.index
    ELSE IF checked THEN Overflow
    ELSE (n - it.index) % Modulus

\* it.size_hint(), it.len()
SizeHint(k) ==
    /\ ~panicked
    /\ iters[k].live
    /\ LET h == size_hint(iters[k], len(coll, checked)) IN
       /\ last' = [op |-> "size_hint", it |-> k, arg |-> 0, again |-> FALSE,
                   res |-> IF h = Overflow THEN Panic("overflow", <<>>)
                           ELSE Ok(h, <<>>)]
       /\ panicked' = (h = Overflow)
    /\ UNCHANGED <<coll, checked, iters, invoked, counted, direct>>

Next ==
    \/ LenCall
    \/ \E i \in 0..MaxIdx : ElementAt(i)
    \/ \E k \in IterIds : Iterate(k)
    \/ \E k \in IterIds : Next_(k)
    \/ \E k \in IterIds : SizeHint(k)

Spec == Init /\ [][Next]_vars

-----------------------------------------------------------------------------
(* Properties *)

Root == <<>>
\* the collection's length as the build computes it
n0 == len(coll, checked)
\* what index(i) on the collection comes to
Elem(i) == index(coll, i, checked, Root)
Live == {k \in IterIds : iters[k].live}

\* the cardinality of t over the integers
RECURSIVE Card(_)
Card(t) ==
    CASE Tag(t) = "Union"   -> Card(t[2]) + Card(t[3])
      [] Tag(t) = "Product" -> Card(t[2]) * Card(t[3])
      [] Tag(t) = "Map"     -> Card(t[2])
      [] OTHER              -> len(t, FALSE)

\* C1: an iterator yields index(0), index(1), ... in this order, never more
\* than len() of them, and reports exhaustion exactly after len() of them.
C1_IterateYieldsEveryElement ==
    \A k \in Live :
        LET it == iters[k] IN
        /\ \A j \in 1..Len(it.yielded) :
              Elem(j - 1).k = "ok" /\ it.yielded[j] = Elem(j - 1).v
        /\ n0 # Overflow => Len(it.yielded) <= n0
        /\ it.done => Len(it.yielded) = n0

C1_Witness ==
    \E k \in Live :
        /\ iters[k].done
        /\ Tag(coll) = "Product"
        /\ iters[k].yielded = <<<<9, 0>>, <<9, 1>>>>

\* C2: index(i) with i outside [0, len()) never returns a value.
C2_OutOfRangeNeverReturns ==
    (last.op = "index" /\ n0 # Overflow /\ last.arg >= n0) => last.res.k # "ok"

\* C3: len(A u B) = len(A) + len(B); index i of A u B is index i of A when
\* i < len(A) and index i - len(A) of B otherwise.
C3_UnionConcatenates ==
    Tag(coll) = "Union" =>
        LET la == len(coll[2], checked)
            lb == len(coll[3], checked)
        IN  (la # Overflow /\ lb # Overflow) =>
            /\ last.op = "len" =>
                  last.res.k = "ok" /\ last.res.v = la + lb
            /\ (last.op = "index" /\ last.arg < la + lb) =>
                  /\ last.res.k = "ok"
                  /\ last.res.v =
                        IF last.arg < la
                        THEN index(coll[2], last.arg, checked, <<1>>).v
                        ELSE index(coll[3], last.arg - la, checked, <<2>>).v

\* Supports C3: the same, for the unions whose length fits a usize.
C3_WithinWord == len(coll, TRUE) # Overflow => C3_UnionConcatenates

\* the pairs of A x B in row-major order
RowMajor(a, b) ==
    [i \in 1..(len(a, checked) * len(b, checked)) |->
        << index(a, (i - 1) \div len(b, checked), checked, <<1>>).v,
           index(b, (i - 1) % len(b, checked), checked, <<2>>).v >>]

\* C4: len(A x B) = len(A) * len(B), and iterating A x B yields every pair
\* once, in row-major order.
C4_ProductRowMajor ==
    Tag(coll) = "Product" =>
        LET la == len(coll[2], checked)
            lb == len(coll[3], checked)
        IN  (la # Overflow /\ lb # Overflow) =>
            /\ last.op = "len" =>
                  last.res.k = "ok" /\ last.res.v = la * lb
            /\ \A k \in Live :
                  iters[k].done => iters[k].yielded = RowMajor(coll[2], coll[3])

\* Supports C4: the same, for the products whose length fits a usize.
C4_WithinWord == len(coll, TRUE) # Overflow => C4_ProductRowMajor

\* C5: len(map(A, f)) = len(A), and index i of map(A, f) is f of index i of A,
\* by direct access and in iteration.
C5_MapAppliesPointwise ==
    Tag(coll) = "Map" =>
        LET A == coll[2]
            f == coll[3]
            fA(i) == ApplyF(f, index(A, i, checked, <<1>>).v)
        IN  /\ last.op = "len" =>
                  IF len(A, checked) = Overflow THEN last.res.k = "overflow"
                  ELSE last.res.k = "ok" /\ last.res.v = len(A, checked)
            /\ (last.op = "index" /\ last.arg < len(A, checked)) =>
                  last.res.k = "ok" /\ last.res.v = fA(last.arg)
            /\ \A k \in Live :
                  /\ \A j \in 1..Len(iters[k].yielded) :
                        iters[k].yielded[j] = fA(j - 1)
                  /\ iters[k].done => Len(iters[k].yielded) = len(A, checked)

C5_Witness ==
    /\ coll = map(Natural(5), "to_string")
    /\ last.op = "index"
    /\ last.arg = 2
    /\ last.res.k = "ok"
    /\ last.res.v = "2"

\* C6: a Lazy's producer has run as often as index(0) was called on it, and a
\* Map's function as often as index was called on the Map with an index in
\* range.
C6_NothingCached ==
    \A p \in Paths(coll) :
        Tag(At(coll, p)) \in {"Lazy", "Map"} => invoked[p] = counted[p]

\* Supports C6: the counts agree as long as the caller makes no index call
\* of his own.
C6_UnderIterationAlone == direct = 0 => C6_NothingCached

\* C7: the cursor stays within 0..len(), and the size hint is len() minus the
\* cursor, which is the number of elements still to come: 0 once exhausted.
C7_ExactSizeHint ==
    /\ \A k \in Live :
          LET it == iters[k]
              h == size_hint(it, n0)
          IN  n0 # Overflow =>
                /\ 0 <= it.index /\ it.index <= n0
                /\ h = n0 - it.index
                /\ h = n0 - Len(it.yielded)
                /\ it.done => h = 0
    /\ (last.op = "size_hint" /\ n0 # Overflow) =>
          /\ last.res.k = "ok"
          /\ last.res.v = n0 - iters[last.it].index
    /\ (last.op = "size_hint" /\ coll = empty) => last.res.v = 0

C7_Witness ==
    /\ last.op = "size_hint"
    /\ n0 = 2
    /\ iters[last.it].index = 1
    /\ last.res.k = "ok"
    /\ last.res.v = 1

C9_Step ==
    /\ coll' = coll
    /\ \A k \in IterIds :
          /\ iters[k].done => iters'[k] = iters[k]
          /\ (iters[k].live /\ ~(last'.op = "next" /\ last'.it = k)) =>
                iters'[k] = iters[k]
          /\ (~iters[k].live /\ iters'[k].live) =>
                (iters'[k].index = 0 /\ iters'[k].yielded = <<>>)
    /\ \A j \in IterIds, k \in IterIds :
          (iters'[j].done /\ iters'[k].done) =>
                iters'[j].yielded = iters'[k].yielded

C9_ExhaustionIsTerminal == [][C9_Step]_vars

C9_Witness ==
    /\ last.op = "next"
    /\ last.again
    /\ last.res.k = "none"
    /\ \A k \in IterIds : iters[k].done /\ Len(iters[k].yielded) = 2

\* C10: len() is the cardinality the collection has over the integers.
C10_LengthNeverWraps ==
    last.op = "len" => (last.res.k = "ok" /\ last.res.v = Card(coll))

\* Supports C10: the same, for the collections whose length fits a usize.
C10_WithinWord == len(coll, TRUE) # Overflow => C10_LengthNeverWraps

====
